---------------------------- MODULE Spec2Model ----------------------------
(***************************************************************************)
(* A model of the orbis batch pipeline (src/orbis.py): ingestion of the    *)
(* CSV files of a directory, cleaning, profiling, validation and the       *)
(* orchestrating main().                                                   *)
(*                                                                         *)
(* A Python str is a sequence of one-character strings; a cell value is a  *)
(* tagged record (text, number or null); a DataFrame is a record of column *)
(* names, column dtypes, index labels and rows.                            *)
(***************************************************************************)
EXTENDS Integers, Sequences, FiniteSets, TLC

VARIABLES
    call,       \* the last library function applied on its own: [fn, in, out]
    dir,        \* the FAF5 directory: file name -> content (Absent when no such file)
    dir0,       \* the directory as it was before the first run
    dirExists,  \* os.path.isdir(faf5_dir)
    pc,         \* position of main()
    run,        \* number of the current run of main() on the directory
    merged_df,  \* main()'s local merged_df
    cleaned_df, \* main()'s local cleaned_df
    profile_df, \* main()'s local profile_df
    issues_df,  \* main()'s local issues_df
    exported,   \* whether export_to_duckdb was called in the current run
    writes,     \* file names written by the current run, in order
    error,      \* the exception main() ended with, "" when none
    prevRun,    \* what the previous run ended with: its tables and the directory
    faf5_arg,   \* the CLI's --faf5-dir: "none", or whether the directory it names
                \* is "existing" or "missing"
    arg_dir     \* the directory --faf5-dir names: file name -> content

vars == <<call, dir, dir0, dirExists, pc, run, merged_df, cleaned_df, profile_df,
          issues_df, exported, writes, error, prevRun, faf5_arg, arg_dir>>

-----------------------------------------------------------------------------
(* Characters and strings.                                                 *)

\* The printable ASCII characters in code-point order, from 32 (space); the
\* double quote, the backslash and the backtick are written by name.
Printable ==
    <<" ", "!", "DQUOTE", "#", "$", "%", "&", "'", "(", ")", "*", "+", ",", "-", ".", "/",
      "0", "1", "2", "3", "4", "5", "6", "7", "8", "9", ":", ";", "<", "=", ">", "?",
      "@", "A", "B", "C", "D", "E", "F", "G", "H", "I", "J", "K", "L", "M", "N", "O",
      "P", "Q", "R", "S", "T", "U", "V", "W", "X", "Y", "Z", "[", "BACKSLASH", "]", "^", "_",
      "BACKTICK", "a", "b", "c", "d", "e", "f", "g", "h", "i", "j", "k", "l", "m", "n", "o",
      "p", "q", "r", "s", "t", "u", "v", "w", "x", "y", "z", "{", "|", "}", "~">>

Chars == {Printable[i] : i \in DOMAIN Printable}

\* ord(c)
OrdTable == [c \in Chars |-> 31 + (CHOOSE i \in DOMAIN Printable : Printable[i] = c)]
Ord(c) == OrdTable[c]

IsDigit(c) == Ord(c) \in 48..57
IsUpper(c) == Ord(c) \in 65..90
IsLowerLetter(c) == Ord(c) \in 97..122
\* str.isalnum() of one character
IsAlnum(c) == IsDigit(c) \/ IsUpper(c) \/ IsLowerLetter(c)
\* str.isspace() of one character
IsSpace(c) == c = " "

\* str.lower()
LowerChar(c) == IF IsUpper(c) THEN Printable[Ord(c) + 32 - 31] ELSE c
Lower(s) == [i \in 1..Len(s) |-> LowerChar(s[i])]

\* str.strip() and str.strip("_"): drop the leading and trailing characters
\* that are in the set D.
RECURSIVE LStrip(_, _)
LStrip(s, D) ==
    IF s # <<>> /\ s[1] \in D THEN LStrip(Tail(s), D) ELSE s
RECURSIVE RStrip(_, _)
RStrip(s, D) ==
    IF s # <<>> /\ s[Len(s)] \in D THEN RStrip(SubSeq(s, 1, Len(s) - 1), D) ELSE s
Whitespace == {c \in Chars : IsSpace(c)}
Strip(s) == RStrip(LStrip(s, Whitespace), Whitespace)
StripUnderscores(s) == RStrip(LStrip(s, {"_"}), {"_"})

\* "__" in s
HasDoubleUnderscore(s) ==
    \E i \in 1..(Len(s) - 1) : s[i] = "_" /\ s[i + 1] = "_"
\* s.replace("__", "_"): one pass, left to right, non-overlapping matches
RECURSIVE ReplaceDoubleUnderscore(_)
ReplaceDoubleUnderscore(s) ==
    IF Len(s) < 2 THEN s
    ELSE IF s[1] = "_" /\ s[2] = "_"
         THEN <<"_">> \o ReplaceDoubleUnderscore(SubSeq(s, 3, Len(s)))
         ELSE <<s[1]>> \o ReplaceDoubleUnderscore(Tail(s))
\* while "__" in normalized: normalized = normalized.replace("__", "_")
RECURSIVE CollapseUnderscores(_)
CollapseUnderscores(s) ==
    IF HasDoubleUnderscore(s)
    THEN CollapseUnderscores(ReplaceDoubleUnderscore(s))
    ELSE s

\* the literal "column"
COLUMN == <<"c", "o", "l", "u", "m", "n">>

SafeChars(s) == [i \in 1..Len(s) |-> IF IsAlnum(s[i]) THEN s[i] ELSE "_"]

\* A slip: the final strip("_") is forgotten.
normalize_column_name_nostrip(name) ==
    LET normalized == CollapseUnderscores(SafeChars(Lower(Strip(name))))
    IN  IF normalized = <<>> THEN COLUMN ELSE normalized

normalize_column_name(name) ==
    LET normalized ==
            StripUnderscores(CollapseUnderscores(SafeChars(Lower(Strip(name)))))
    IN  IF normalized = <<>> THEN COLUMN ELSE normalized

-----------------------------------------------------------------------------
(* Cell values and DataFrames.                                             *)

\* A cell: a str, a number, or a missing value (None, NaN, pd.NA).
Str(s) == [t |-> "str", s |-> s, n |-> 0]
Num(n) == [t |-> "num", s |-> <<>>, n |-> n]
Null == [t |-> "null", s |-> <<>>, n |-> 0]

\* Series.isna() / Series.notna() of one cell
IsNa(v) == v.t = "null"
NotNa(v) == ~IsNa(v)

\* pd.DataFrame(): no columns, no rows
EmptyDataFrame == [columns |-> <<>>, dtypes |-> <<>>, index |-> <<>>, rows |-> <<>>]

\* A DataFrame built from columns, with the default RangeIndex 0..n-1.
DataFrame(columns, dtypes, rows) ==
    [columns |-> columns, dtypes |-> dtypes,
     index |-> [i \in 1..Len(rows) |-> i - 1], rows |-> rows]

NumRows(df) == Len(df.rows)
NumCols(df) == Len(df.columns)
\* df[column] by position: the cells of column j, in row order
ColumnAt(df, j) == [i \in 1..NumRows(df) |-> df.rows[i][j]]
\* df.empty
IsEmpty(df) == NumRows(df) = 0 \/ NumCols(df) = 0

IsNumericDtype(d) == d \in {"int64", "float64"}
IsTextDtype(d) == d \in {"object", "string"}

\* series.notna() as the set of the positions it is True at
NotNaPositions(cells) == {i \in 1..Len(cells) : NotNa(cells[i])}

\* The members of a set of integers, ascending.
RECURSIVE Ascending(_)
Ascending(S) ==
    IF S = {} THEN <<>>
    ELSE LET m == CHOOSE x \in S : \A y \in S : x <= y
         IN  <<m>> \o Ascending(S \ {m})

\* cells[i] for the positions i of a set, in row order
Select(cells, S) == [k \in 1..Cardinality(S) |-> cells[Ascending(S)[k]]]

\* str(k) of a natural number
DigitChar(d) == Printable[d + 48 - 31]
RECURSIVE IntToStr(_)
IntToStr(k) == IF k < 10 THEN <<DigitChar(k)>> ELSE Append(IntToStr(k \div 10), DigitChar(k % 10))

\* The number a str parses as (pd.to_numeric, errors="coerce"), Null when it
\* does not parse: an optional sign and decimal digits.
RECURSIVE DigitsValue(_)
DigitsValue(s) ==
    IF s = <<>> THEN 0 ELSE 10 * DigitsValue(SubSeq(s, 1, Len(s) - 1)) + (Ord(s[Len(s)]) - 48)
AllDigits(s) == s # <<>> /\ \A i \in 1..Len(s) : IsDigit(s[i])
ParseNumber(s) ==
    IF AllDigits(s) THEN Num(DigitsValue(s))
    ELSE IF s # <<>> /\ s[1] = "-" /\ AllDigits(Tail(s)) THEN Num(0 - DigitsValue(Tail(s)))
    ELSE IF s # <<>> /\ s[1] = "+" /\ AllDigits(Tail(s)) THEN Num(DigitsValue(Tail(s)))
    ELSE Null
\* pd.to_numeric(series, errors="coerce") of one cell
ToNumeric(v) == IF v.t = "str" THEN ParseNumber(v.s) ELSE v
\* the dtype pandas gives a column of numbers: NaN forces float64
NumericDtype(cells) == IF \E i \in 1..Len(cells) : IsNa(cells[i]) THEN "float64" ELSE "int64"

\* df with column j replaced by cells of dtype d
SetColumn(df, j, cells, d) ==
    [df EXCEPT !.dtypes[j] = d,
               !.rows = [i \in 1..NumRows(df) |-> [df.rows[i] EXCEPT ![j] = cells[i]]]]

-----------------------------------------------------------------------------
(* Cleaning.                                                               *)

\* A threshold is a decimal fraction num/den; ratio >= threshold is decided
\* on the integers.
ConvertColumn(df, j, threshold) ==
    LET original_series == ColumnAt(df, j)
        non_null_mask == NotNaPositions(original_series)
        coerced == [i \in 1..Len(original_series) |-> ToNumeric(original_series[i])]
        convertible == {i \in non_null_mask : NotNa(coerced[i])}
    IN  IF Cardinality(non_null_mask) = 0 THEN df
        ELSE IF Cardinality(convertible) * threshold.den
                    >= threshold.num * Cardinality(non_null_mask)
             THEN SetColumn(df, j, coerced, NumericDtype(coerced))
             ELSE df

RECURSIVE ConvertColumnsFrom(_, _, _)
ConvertColumnsFrom(df, j, threshold) ==
    IF j > NumCols(df) THEN df
    ELSE ConvertColumnsFrom(
            IF IsTextDtype(df.dtypes[j]) THEN ConvertColumn(df, j, threshold) ELSE df,
            j + 1, threshold)

\* A slip: the ratio is taken over all rows, nulls included.
convert_mostly_numeric_columns_allrows(df, threshold) ==
    LET Conv(d, j) ==
            LET cells == ColumnAt(d, j)
                coerced == [i \in 1..Len(cells) |-> ToNumeric(cells[i])]
            IN  IF Cardinality(NotNaPositions(cells)) = 0 THEN d
                ELSE IF Cardinality(NotNaPositions(coerced)) * threshold.den
                            >= threshold.num * Len(cells)
                     THEN SetColumn(d, j, coerced, NumericDtype(coerced))
                     ELSE d
        RECURSIVE From(_, _)
        From(d, j) ==
            IF j > NumCols(d) THEN d
            ELSE From(IF IsTextDtype(d.dtypes[j]) THEN Conv(d, j) ELSE d, j + 1)
    IN  From(df, 1)

convert_mostly_numeric_columns(df, threshold) == ConvertColumnsFrom(df, 1, threshold)

\* DataFrame.duplicated(): the positions of the rows equal, in all columns,
\* to an earlier row (missing values compare equal to each other).
Duplicated(df) == {i \in 1..NumRows(df) : \E j \in 1..(i - 1) : df.rows[j] = df.rows[i]}

\* the rows at the positions of S, with their index labels
TakeRows(df, S) ==
    [df EXCEPT !.index = Select(df.index, S), !.rows = Select(df.rows, S)]

\* A slip: drop_duplicates(keep="last").
remove_duplicate_rows_keeplast(df) ==
    TakeRows(df, {i \in 1..NumRows(df) :
                    ~\E j \in (i + 1)..NumRows(df) : df.rows[j] = df.rows[i]})

remove_duplicate_rows(df) == TakeRows(df, (1..NumRows(df)) \ Duplicated(df))

\* The dict comprehension and the collision loop: rename_map as a function
\* on the distinct column names, walked in the dict's insertion order.
DistinctInOrder(names) ==
    Select(names, {i \in 1..Len(names) : \A j \in 1..(i - 1) : names[j] # names[i]})

RECURSIVE ResolveCollisions(_, _, _, _, _)
ResolveCollisions(items, k, seen, rename_map, first) ==
    IF k > Len(items) THEN rename_map
    ELSE LET original == items[k]
             normalized == normalize_column_name(original)
         IN  IF normalized \notin DOMAIN seen
             THEN ResolveCollisions(items, k + 1, (normalized :> first) @@ seen,
                                    rename_map, first)
             ELSE LET count == seen[normalized] + 1
                  IN  ResolveCollisions(
                          items, k + 1, [seen EXCEPT ![normalized] = count],
                          [rename_map EXCEPT
                              ![original] = normalized \o <<"_">> \o IntToStr(count)],
                          first)

RenameColumns(df, first) ==
    LET items == DistinctInOrder(df.columns)
        rename_map == [name \in {items[i] : i \in 1..Len(items)} |->
                          normalize_column_name(name)]
        resolved == ResolveCollisions(items, 1, <<>>, rename_map, first)
    IN  [df EXCEPT !.columns = [j \in 1..NumCols(df) |-> resolved[df.columns[j]]]]

\* A slip: the counter of a name starts at 0, so the second column is n_1.
normalize_column_names_from0(df) == RenameColumns(df, 0)

normalize_column_names(df) == RenameColumns(df, 1)

\* strip_and_standardize_strings: every object column becomes a string
\* column of its stripped text, the empty text missing.
SignedStr(n) == IF n < 0 THEN <<"-">> \o IntToStr(0 - n) ELSE IntToStr(n)
\* astype("string") of one cell
AsString(v) == IF v.t = "num" THEN Str(SignedStr(v.n)) ELSE v
StandardizeCell(v) ==
    LET text == AsString(v)
    IN  IF IsNa(text) THEN Null
        ELSE IF Strip(text.s) = <<>> THEN Null ELSE Str(Strip(text.s))

RECURSIVE StandardizeFrom(_, _)
StandardizeFrom(df, j) ==
    IF j > NumCols(df) THEN df
    ELSE StandardizeFrom(
            IF df.dtypes[j] = "object"
            THEN SetColumn(df, j,
                           [i \in 1..NumRows(df) |-> StandardizeCell(df.rows[i][j])],
                           "string")
            ELSE df,
            j + 1)

strip_and_standardize_strings(df) == StandardizeFrom(df, 1)

\* the columns at the positions of S, in column order
TakeColumns(df, S) ==
    [df EXCEPT !.columns = Select(df.columns, S),
               !.dtypes = Select(df.dtypes, S),
               !.rows = [i \in 1..NumRows(df) |-> Select(df.rows[i], S)]]

\* df.dropna(axis=1, how="all")
drop_empty_columns(df) ==
    TakeColumns(df, {j \in 1..NumCols(df) : ~\A i \in 1..NumRows(df) : IsNa(df.rows[i][j])})

\* The threshold clean_dataframe passes: 0.9
CleanThreshold == [num |-> 9, den |-> 10]

clean_dataframe(df) ==
    LET step1 == normalize_column_names(df)
        step2 == strip_and_standardize_strings(step1)
        step3 == convert_mostly_numeric_columns(step2, CleanThreshold)
        step4 == drop_empty_columns(step3)
        step5 == remove_duplicate_rows(step4)
    IN  step5

-----------------------------------------------------------------------------
(* Files and ingestion.                                                    *)

FAF5_MERGED == <<"F", "A", "F", "5", "_", "M", "E", "R", "G", "E", "D", ".", "c", "s", "v">>
FAF5_MERGED_CLEANED ==
    <<"F", "A", "F", "5", "_", "M", "E", "R", "G", "E", "D", "_",
      "C", "L", "E", "A", "N", "E", "D", ".", "c", "s", "v">>
FAF5_VALIDATION_COLUMNS ==
    <<"F", "A", "F", "5", "_", "V", "A", "L", "I", "D", "A", "T", "I", "O", "N", "_",
      "C", "O", "L", "U", "M", "N", "S", ".", "c", "s", "v">>
FAF5_VALIDATION_ISSUES ==
    <<"F", "A", "F", "5", "_", "V", "A", "L", "I", "D", "A", "T", "I", "O", "N", "_",
      "I", "S", "S", "U", "E", "S", ".", "c", "s", "v">>
SOURCE_FILE == <<"s", "o", "u", "r", "c", "e", "_", "f", "i", "l", "e">>

\* A file: absent, not parseable as CSV, or a CSV text given as its header
\* and its lines of cell texts. The profile and issues files hold the rows of
\* their tables (to_csv without the index).
Absent == [kind |-> "absent", header |-> <<>>, lines |-> <<>>]
Unparseable == [kind |-> "bad", header |-> <<>>, lines |-> <<>>]
Csv(header, lines) == [kind |-> "csv", header |-> header, lines |-> lines]

\* os.listdir(faf5_dir)
ListDir(d) == {name \in DOMAIN d : d[name].kind # "absent"}

\* file_name.lower().endswith(".csv")
EndsWithCsv(name) ==
    /\ Len(name) >= 4
    /\ SubSeq(Lower(name), Len(name) - 3, Len(name)) = <<".", "c", "s", "v">>

\* The comparison sorted() makes of two str: by code point, a proper prefix first.
RECURSIVE LexLess(_, _)
LexLess(a, b) ==
    IF b = <<>> THEN FALSE
    ELSE IF a = <<>> THEN TRUE
    ELSE IF a[1] # b[1] THEN Ord(a[1]) < Ord(b[1])
    ELSE LexLess(Tail(a), Tail(b))

\* A slip: os.listdir is walked in another order than sorted() gives (here
\* the reverse).
RECURSIVE Sorted_reversed(_)
Sorted_reversed(S) ==
    IF S = {} THEN <<>>
    ELSE LET greatest == CHOOSE x \in S : \A y \in S \ {x} : LexLess(y, x)
         IN  <<greatest>> \o Sorted_reversed(S \ {greatest})

\* sorted(names)
RECURSIVE Sorted(_)
Sorted(S) ==
    IF S = {} THEN <<>>
    ELSE LET least == CHOOSE x \in S : \A y \in S \ {x} : LexLess(x, y)
         IN  <<least>> \o Sorted(S \ {least})

\* A slip: FAF5_MERGED.csv is missing from the exclusion set.
excluded_filenames_short ==
    {FAF5_MERGED_CLEANED, FAF5_VALIDATION_COLUMNS, FAF5_VALIDATION_ISSUES}

excluded_filenames ==
    {FAF5_MERGED, FAF5_MERGED_CLEANED, FAF5_VALIDATION_COLUMNS, FAF5_VALIDATION_ISSUES}

\* The file names the loop of read_all_faf5_csvs reads, in its order.
SourceFiles(d) ==
    LET names == Sorted(ListDir(d))
    IN  Select(names, {k \in 1..Len(names) :
                          EndsWithCsv(names[k]) /\ names[k] \notin excluded_filenames})

\* pd.read_csv of a CSV text: a column whose non-empty cells all parse as
\* numbers is numeric (float64 when a cell is empty), any other column is an
\* object column of its texts; an empty cell is missing. A column of a file
\* without lines is an object column.
CsvCell(text) == IF text = <<>> THEN Null ELSE Str(text)
ReadCsv(content) ==
    LET n == Len(content.lines)
        IsNumericColumn(j) ==
            /\ n > 0
            /\ \A i \in 1..n :
                  content.lines[i][j] = <<>> \/ NotNa(ParseNumber(content.lines[i][j]))
        cell(i, j) ==
            IF IsNumericColumn(j) THEN ToNumeric(CsvCell(content.lines[i][j]))
            ELSE CsvCell(content.lines[i][j])
        rows == [i \in 1..n |-> [j \in 1..Len(content.header) |-> cell(i, j)]]
    IN  DataFrame(content.header,
                  [j \in 1..Len(content.header) |->
                      IF IsNumericColumn(j)
                      THEN NumericDtype([i \in 1..n |-> rows[i][j]])
                      ELSE "object"],
                  rows)

\* the position of a column name in a header, 0 when absent
ColumnIndex(columns, name) ==
    IF \E j \in 1..Len(columns) : columns[j] = name
    THEN CHOOSE j \in 1..Len(columns) : columns[j] = name
    ELSE 0

\* df["source_file"] = file_name: replaces the column, or appends it
TagSourceFile(df, file_name) ==
    LET j == ColumnIndex(df.columns, SOURCE_FILE)
    IN  IF j > 0
        THEN SetColumn(df, j, [i \in 1..NumRows(df) |-> Str(file_name)], "object")
        ELSE [df EXCEPT !.columns = Append(df.columns, SOURCE_FILE),
                        !.dtypes = Append(df.dtypes, "object"),
                        !.rows = [i \in 1..NumRows(df) |->
                                     Append(df.rows[i], Str(file_name))]]

\* pd.concat(dataframes, ignore_index=True, sort=False): the union of the
\* columns in first-seen order, a column absent from a frame missing in that
\* frame's rows, and a fresh RangeIndex.
RECURSIVE ConcatColumns(_)
ConcatColumns(frames) ==
    IF frames = <<>> THEN <<>>
    ELSE LET before == ConcatColumns(SubSeq(frames, 1, Len(frames) - 1))
             last == frames[Len(frames)].columns
         IN  before \o Select(last, {j \in 1..Len(last) : ColumnIndex(before, last[j]) = 0})

RECURSIVE ConcatRows(_, _)
ConcatRows(frames, columns) ==
    IF frames = <<>> THEN <<>>
    ELSE LET df == frames[1]
             widen(row) ==
                 [c \in 1..Len(columns) |->
                     IF ColumnIndex(df.columns, columns[c]) = 0 THEN Null
                     ELSE row[ColumnIndex(df.columns, columns[c])]]
         IN  [i \in 1..NumRows(df) |-> widen(df.rows[i])]
                 \o ConcatRows(Tail(frames), columns)

ConcatDtype(frames, name) ==
    LET found == {frames[k].dtypes[ColumnIndex(frames[k].columns, name)] :
                     k \in {k \in 1..Len(frames) : ColumnIndex(frames[k].columns, name) > 0}}
        everywhere == \A k \in 1..Len(frames) : ColumnIndex(frames[k].columns, name) > 0
    IN  IF \E d \in found : ~IsNumericDtype(d) THEN "object"
        ELSE IF found = {"int64"} /\ everywhere THEN "int64"
        ELSE "float64"

Concat(frames) ==
    LET columns == ConcatColumns(frames)
    IN  DataFrame(columns,
                  [c \in 1..Len(columns) |-> ConcatDtype(frames, columns[c])],
                  ConcatRows(frames, columns))

\* What a call ends with: a returned value, or a raised exception.
Return(value) == [raised |-> "", value |-> value]
Raise(exception) == [raised |-> exception, value |-> <<>>]

read_all_faf5_csvs(exists, d) ==
    IF ~exists THEN Raise("FileNotFoundError")
    ELSE LET files == SourceFiles(d)
         IN  IF \E k \in 1..Len(files) : d[files[k]].kind = "bad"
             THEN Raise("RuntimeError")
             ELSE IF files = <<>> THEN Return(EmptyDataFrame)
             ELSE Return(Concat([k \in 1..Len(files) |->
                                    TagSourceFile(ReadCsv(d[files[k]]), files[k])]))

\* DataFrame.to_csv(path, index=False) of a data table: the header and, per
\* row, the text of each cell; a missing cell is empty and the number of a
\* float64 column is written with its decimal point.
CellText(v, dtype) ==
    IF v.t = "null" THEN <<>>
    ELSE IF v.t = "str" THEN v.s
    ELSE IF dtype = "float64" THEN SignedStr(v.n) \o <<".", "0">>
    ELSE SignedStr(v.n)

ToCsv(df) ==
    Csv(df.columns,
        [i \in 1..NumRows(df) |->
            [j \in 1..NumCols(df) |-> CellText(df.rows[i][j], df.dtypes[j])]])

-----------------------------------------------------------------------------
(* Profiling and validation.                                               *)

\* round(count / total, 6) if total else 0.0, in millionths.
PctMicro(count, total) ==
    IF total = 0 THEN 0 ELSE (2 * count * 1000000 + total) \div (2 * total)

\* series.unique() / dict keys: the distinct members, in first-seen order
Unique(cells) ==
    Select(cells, {i \in 1..Len(cells) : \A j \in 1..(i - 1) : cells[j] # cells[i]})

\* seq[:n]
FirstN(seq, n) == SubSeq(seq, 1, IF Len(seq) < n THEN Len(seq) ELSE n)

\* series.dropna()
DropNa(cells) == Select(cells, NotNaPositions(cells))

RECURSIVE SumOf(_)
SumOf(nums) == IF nums = <<>> THEN 0 ELSE nums[1] + SumOf(Tail(nums))

\* ", ".join(texts)
RECURSIVE Join(_)
Join(texts) ==
    IF texts = <<>> THEN <<>>
    ELSE IF Len(texts) = 1 THEN texts[1]
    ELSE texts[1] \o <<",", " ">> \o Join(Tail(texts))

ProfileSampleLimit == 5
IssueSampleLimit == 10

\* A float that is a quotient, kept exact: num/den, and NaN/None when den = 0.
Quotient(num, den) == [num |-> num, den |-> den]
NoFloat == Quotient(0, 0)

\* One row of profile_columns. mean is sum/n; std is kept as the sample
\* variance it is the square root of, (n*sum(x^2) - sum(x)^2) / (n*(n-1)).
Profile(df, j) ==
    LET series == ColumnAt(df, j)
        present == DropNa(series)
        non_null_count == Len(present)
        null_count == Len(series) - non_null_count
        nums == [i \in 1..non_null_count |-> present[i].n]
        smallest == CHOOSE x \in {nums[i] : i \in 1..Len(nums)} :
                        \A i \in 1..Len(nums) : x <= nums[i]
        largest == CHOOSE x \in {nums[i] : i \in 1..Len(nums)} :
                        \A i \in 1..Len(nums) : x >= nums[i]
        squares == [i \in 1..non_null_count |-> nums[i] * nums[i]]
        numeric == IsNumericDtype(df.dtypes[j])
        sample_values ==
            FirstN(Unique([i \in 1..non_null_count |-> AsString(present[i]).s]),
                   ProfileSampleLimit)
    IN  [column_name |-> df.columns[j],
         dtype |-> df.dtypes[j],
         count |-> Len(series),
         non_null_count |-> non_null_count,
         null_count |-> null_count,
         null_pct |-> PctMicro(null_count, Len(series)),
         num_unique |-> Len(Unique(present)),
         min |-> IF numeric /\ non_null_count > 0 THEN Num(smallest) ELSE Null,
         max |-> IF numeric /\ non_null_count > 0 THEN Num(largest) ELSE Null,
         mean |-> IF numeric /\ non_null_count > 0
                  THEN Quotient(SumOf(nums), non_null_count) ELSE NoFloat,
         std |-> IF numeric /\ non_null_count > 1
                 THEN Quotient(non_null_count * SumOf(squares) - SumOf(nums) * SumOf(nums),
                               non_null_count * (non_null_count - 1))
                 ELSE NoFloat,
         sample_values |-> IF numeric THEN Null ELSE Str(Join(sample_values))]

profile_columns(df) == [j \in 1..NumCols(df) |-> Profile(df, j)]

\* One issue; details is its text and the values the text lists.
Issue(issue_type, column, count, total, text, values) ==
    [issue_type |-> issue_type, column |-> column, count |-> count,
     pct |-> PctMicro(count, total), details |-> [text |-> text, values |-> values]]

\* The try/except around os.listdir: the eligible names, or the empty set
\* when the directory cannot be listed.
AllowedFiles(readable, d) ==
    IF readable
    THEN {name \in ListDir(d) :
            /\ EndsWithCsv(name)
            /\ name \notin {FAF5_MERGED, FAF5_MERGED_CLEANED,
                            FAF5_VALIDATION_COLUMNS, FAF5_VALIDATION_ISSUES}}
    ELSE {}

\* Concatenation of a sequence of sequences.
RECURSIVE Flatten(_)
Flatten(seqs) == IF seqs = <<>> THEN <<>> ELSE seqs[1] \o Flatten(Tail(seqs))

\* 1) Missing data by column
MissingIssues(df) ==
    Flatten([j \in 1..NumCols(df) |->
        LET null_count == Len(ColumnAt(df, j)) - Len(DropNa(ColumnAt(df, j)))
        IN  IF null_count > 0
            THEN <<Issue("missing_values", df.columns[j], null_count, NumRows(df),
                         "Column contains missing values", <<>>)>>
            ELSE <<>>])

\* 2) Negative values for numeric columns; the sample is df.index[neg_mask].
NegativeIssues(df) ==
    Flatten([j \in 1..NumCols(df) |->
        LET neg_mask == {i \in 1..NumRows(df) :
                            df.rows[i][j].t = "num" /\ df.rows[i][j].n < 0}
            sample_idx == FirstN(Select(df.index, neg_mask), IssueSampleLimit)
        IN  IF IsNumericDtype(df.dtypes[j]) /\ Cardinality(neg_mask) > 0
            THEN <<Issue("negative_values", df.columns[j], Cardinality(neg_mask),
                         NumRows(df), "Sample row indices",
                         [k \in 1..Len(sample_idx) |-> Num(sample_idx[k])])>>
            ELSE <<>>])

\* 3) source_file integrity
SourceFileIssues(df, allowed_files) ==
    LET j == ColumnIndex(df.columns, SOURCE_FILE)
        sf_series == [i \in 1..NumRows(df) |-> AsString(df.rows[i][j])]
        null_count == Len(sf_series) - Len(DropNa(sf_series))
        empty_count == Cardinality({i \in NotNaPositions(sf_series) :
                                       Strip(sf_series[i].s) = <<>>})
        invalid_mask == {i \in NotNaPositions(sf_series) :
                            sf_series[i].s \notin allowed_files}
        sample_vals == FirstN(Unique(Select(sf_series, invalid_mask)), IssueSampleLimit)
    IN  IF j = 0
        THEN <<Issue("source_file_missing", SOURCE_FILE, NumRows(df), NumRows(df),
                     "Column 'source_file' not found", <<>>)>>
        ELSE (IF null_count > 0
              THEN <<Issue("source_file_null", SOURCE_FILE, null_count, NumRows(df),
                           "Null values present in 'source_file'", <<>>)>>
              ELSE <<>>)
          \o (IF empty_count > 0
              THEN <<Issue("source_file_empty", SOURCE_FILE, empty_count, NumRows(df),
                           "Empty string values present in 'source_file'", <<>>)>>
              ELSE <<>>)
          \o (IF allowed_files # {} /\ Cardinality(invalid_mask) > 0
              THEN <<Issue("source_file_invalid", SOURCE_FILE, Cardinality(invalid_mask),
                           NumRows(df), "Values not in FAF5 directory", sample_vals)>>
              ELSE <<>>)

\* 4) Duplicate rows
DuplicateIssues(df) ==
    IF Cardinality(Duplicated(df)) > 0
    THEN <<Issue("duplicate_rows", <<>>, Cardinality(Duplicated(df)), NumRows(df),
                 "Exact duplicate rows detected", <<>>)>>
    ELSE <<>>

\* A slip: the duplicate-rows check is run before the source_file checks.
gather_validation_issues_reordered(df, readable, d) ==
    MissingIssues(df) \o NegativeIssues(df) \o DuplicateIssues(df)
        \o SourceFileIssues(df, AllowedFiles(readable, d))

gather_validation_issues(df, readable, d) ==
    MissingIssues(df) \o NegativeIssues(df)
        \o SourceFileIssues(df, AllowedFiles(readable, d)) \o DuplicateIssues(df)

-----------------------------------------------------------------------------
(* Bounds and input domains.                                               *)

MaxNameLen == 4
MaxCols == 3
ConvertMaxRows == 4
DedupMaxRows == 4
ValMaxRows == 3
MaxRuns == 2

\* Characters of the column names tried: a capital, a small letter, a digit,
\* whitespace, an underscore and another symbol.
NameChars == {"A", "b", "1", " ", "_", "-"}

RECURSIVE SeqsUpTo(_, _)
SeqsUpTo(S, n) ==
    IF n = 0 THEN {<<>>}
    ELSE LET shorter == SeqsUpTo(S, n - 1)
         IN  shorter \cup {Append(s, x) : s \in {t \in shorter : Len(t) = n - 1}, x \in S}

ColumnNameInputs == SeqsUpTo(NameChars, MaxNameLen)

\* Headers: up to MaxCols pairwise distinct column names (a DataFrame built
\* from a dict or read from a CSV file has distinct column names), several of
\* which normalize to the same name.
HeaderNames ==
    {<<"A">>, <<"a">>, <<"a", " ">>, <<"a", "_", "2">>, <<"b">>, <<"-">>}
Headers ==
    {h \in SeqsUpTo(HeaderNames, MaxCols) :
        h # <<>> /\ \A i, j \in 1..Len(h) : i # j => h[i] # h[j]}
HeaderInputs ==
    {DataFrame(h, [j \in 1..Len(h) |-> "int64"], <<[j \in 1..Len(h) |-> Num(j)]>>) :
        h \in Headers}

\* Text columns of up to ConvertMaxRows cells beside a column that never
\* parses, and the thresholds 0.5, 0.9 and 1.0.
ConvertCells == {Str(<<"1">>), Str(<<"-", "2">>), Str(<<"x">>), Null}
ConvertInputs ==
    {DataFrame(<<<<"a">>, <<"b">>>>, <<"object", "object">>,
               [i \in 1..Len(cells) |->
                   <<cells[i], IF i = Len(cells) THEN Null ELSE Str(<<"y">>)>>]) :
        cells \in SeqsUpTo(ConvertCells, ConvertMaxRows) \ {<<>>}}
Thresholds == {[num |-> 5, den |-> 10], [num |-> 9, den |-> 10], [num |-> 10, den |-> 10]}

\* Tables of up to DedupMaxRows rows drawn from four distinct rows.
DedupRows == {<<a, b>> : a \in {Num(1), Null}, b \in {Num(1), Num(2)}}
DedupInputs ==
    {DataFrame(<<<<"a">>, <<"b">>>>, <<"float64", "int64">>, rows) :
        rows \in SeqsUpTo(DedupRows, DedupMaxRows)}

\* The file names of the model: two eligible source names (one with a
\* capital extension, which sorts first), a file that is no CSV, and the four
\* output names.
A_CSV == <<"a", ".", "c", "s", "v">>
B_CSV == <<"B", ".", "C", "S", "V">>
N_TXT == <<"n", ".", "t", "x", "t">>
ZZ_CSV == <<"z", "z", ".", "c", "s", "v">>
InputNames == {A_CSV, B_CSV, N_TXT}
OutputNames ==
    {FAF5_MERGED, FAF5_MERGED_CLEANED, FAF5_VALIDATION_COLUMNS, FAF5_VALIDATION_ISSUES}
FileNames == InputNames \cup OutputNames
EmptyDir == [name \in FileNames |-> Absent]

\* Tables given to gather_validation_issues: with a source_file column
\* between two numeric columns, or without one; and the directories given
\* with them: one that cannot be listed, one with no eligible file, one with
\* an eligible file among others.
QTY == <<"q", "t", "y">>
AMT == <<"a", "m", "t">>
NOTE == <<"n", "o", "t", "e">>
ValidationRows ==
    {<<qa[1], f, qa[2]>> :
        qa \in {<<Num(1), Null>>, <<Num(0 - 1), Null>>, <<Num(0 - 1), Num(0 - 2)>>},
        f \in {Str(A_CSV), Str(ZZ_CSV), Str(<<" ">>), Null}}
PlainRows == {<<n, q>> : n \in {Str(<<"x">>), Null}, q \in {Num(1), Num(0 - 1)}}
ValidationInputs ==
    {DataFrame(<<QTY, SOURCE_FILE, AMT>>, <<"int64", "object", "float64">>, rows) :
        rows \in SeqsUpTo(ValidationRows, ValMaxRows)}
    \cup {DataFrame(<<NOTE, QTY>>, <<"object", "int64">>, rows) :
            rows \in SeqsUpTo(PlainRows, ValMaxRows)}
SomeCsv == Csv(<<QTY>>, <<<<<<"1">>>>>>)
ValidationDirs ==
    {[readable |-> FALSE, d |-> EmptyDir],
     [readable |-> TRUE, d |-> [EmptyDir EXCEPT ![N_TXT] = SomeCsv, ![FAF5_MERGED] = SomeCsv]],
     [readable |-> TRUE,
      d |-> [EmptyDir EXCEPT ![A_CSV] = SomeCsv, ![N_TXT] = SomeCsv, ![FAF5_MERGED] = SomeCsv]]}

\* The contents a file of the directory starts with. Rows 1 and 2 of
\* DupThenNegative differ only in whitespace, and a negative row follows them;
\* Sparse has an all-empty column; HeaderOnly has no rows.
QTY_RAW == <<"Q", "t", "y">>
NOTE_RAW == <<"N", "o", "t", "e">>
EXTRA_RAW == <<"E", "x", "t", "r", "a">>
DupThenNegative ==
    Csv(<<QTY_RAW, NOTE_RAW>>,
        <<<<<<"5">>, <<" ", "x">>>>, <<<<"5">>, <<"x", " ">>>>, <<<<"-", "1">>, <<>>>>>>)
Sparse == Csv(<<QTY_RAW, EXTRA_RAW>>, <<<<<<"-", "3">>, <<>>>>>>)
HeaderOnly == Csv(<<QTY_RAW>>, <<>>)
SourceContents == {Absent, Unparseable, HeaderOnly, DupThenNegative, Sparse}
InitialDirs ==
    {[EmptyDir EXCEPT ![A_CSV] = a, ![B_CSV] = b, ![N_TXT] = n, ![FAF5_MERGED] = m] :
        a \in SourceContents, b \in SourceContents,
        n \in {Absent, DupThenNegative}, m \in {Absent, Sparse}}

-----------------------------------------------------------------------------
(* State machine.                                                          *)

NoCall == [fn |-> "none", in |-> <<>>, out |-> <<>>]

IdlePipeline ==
    /\ dir = <<>>
    /\ dir0 = <<>>
    /\ dirExists = FALSE
    /\ pc = "idle"
    /\ run = 0
    /\ merged_df = <<>>
    /\ cleaned_df = <<>>
    /\ profile_df = <<>>
    /\ issues_df = <<>>
    /\ exported = FALSE
    /\ writes = <<>>
    /\ error = ""
    /\ prevRun = <<>>
    /\ faf5_arg = "none"
    /\ arg_dir = <<>>

pipelineVars == <<dir, dir0, dirExists, pc, run, merged_df, cleaned_df, profile_df,
                  issues_df, exported, writes, error, prevRun, faf5_arg, arg_dir>>

\* Each library function applied once, on its own, to each input.
InitFn == call = NoCall /\ IdlePipeline

CallNormalizeColumnName ==
    /\ call = NoCall
    /\ \E s \in ColumnNameInputs :
          call' = [fn |-> "normalize_column_name", in |-> s,
                   out |-> normalize_column_name(s)]
    /\ UNCHANGED pipelineVars

CallNormalizeColumnNames ==
    /\ call = NoCall
    /\ \E df \in HeaderInputs :
          call' = [fn |-> "normalize_column_names", in |-> df,
                   out |-> normalize_column_names(df)]
    /\ UNCHANGED pipelineVars

CallConvertMostlyNumeric ==
    /\ call = NoCall
    /\ \E df \in ConvertInputs, threshold \in Thresholds :
          call' = [fn |-> "convert_mostly_numeric_columns",
                   in |-> [df |-> df, threshold |-> threshold],
                   out |-> convert_mostly_numeric_columns(df, threshold)]
    /\ UNCHANGED pipelineVars

CallRemoveDuplicateRows ==
    /\ call = NoCall
    /\ \E df \in DedupInputs :
          call' = [fn |-> "remove_duplicate_rows", in |-> df,
                   out |-> remove_duplicate_rows(df)]
    /\ UNCHANGED pipelineVars

CallGatherValidationIssues ==
    /\ call = NoCall
    /\ \E df \in ValidationInputs, src \in ValidationDirs :
          call' = [fn |-> "gather_validation_issues",
                   in |-> [df |-> df, readable |-> src.readable, d |-> src.d],
                   out |-> gather_validation_issues(df, src.readable, src.d)]
    /\ UNCHANGED pipelineVars

NextFn ==
    \/ CallGatherValidationIssues
    \/ CallNormalizeColumnName
    \/ CallNormalizeColumnNames
    \/ CallConvertMostlyNumeric
    \/ CallRemoveDuplicateRows

SpecFn == InitFn /\ [][NextFn]_vars

-----------------------------------------------------------------------------
(* main(): one step per statement group, run after run on one directory.   *)

\* The directory build_faf5_directory_path() names and main()'s locals,
\* before main() runs.
FreshDirectory(at) ==
    /\ call = NoCall
    /\ dirExists \in BOOLEAN
    /\ dir \in IF dirExists THEN InitialDirs ELSE {EmptyDir}
    /\ dir0 = dir
    /\ pc = at
    /\ run = 1
    /\ merged_df = EmptyDataFrame
    /\ cleaned_df = EmptyDataFrame
    /\ profile_df = <<>>
    /\ issues_df = <<>>
    /\ exported = FALSE
    /\ writes = <<>>
    /\ error = ""
    /\ prevRun = [pc |-> "none", merged_df |-> EmptyDataFrame,
                  cleaned_df |-> EmptyDataFrame, profile_df |-> <<>>,
                  issues_df |-> <<>>, dir |-> EmptyDir]

\* python orbis.py: main() is entered directly.
Init ==
    /\ FreshDirectory("start")
    /\ faf5_arg = "none"
    /\ arg_dir = EmptyDir

\* A slip: the early return on an empty merged table is missing.
AfterRead_noreturn(df) == "save_merged"

\* if merged_df.empty: return
AfterRead(df) == IF IsEmpty(df) THEN "returned" ELSE "save_merged"

\* df.to_csv(os.path.join(faf5_dir, name), index=False)
WriteFile(name, content) ==
    /\ dir' = [dir EXCEPT ![name] = content]
    /\ writes' = Append(writes, name)

\* to_csv of the profile and issues tables: their rows
RowsCsv(rows) == Csv(<<>>, rows)

ReadAll ==
    /\ pc = "start"
    /\ LET result == read_all_faf5_csvs(dirExists, dir)
       IN  IF result.raised # ""
           THEN /\ pc' = "raised"
                /\ error' = result.raised
                /\ UNCHANGED merged_df
           ELSE /\ pc' = AfterRead(result.value)
                /\ merged_df' = result.value
                /\ UNCHANGED error
    /\ UNCHANGED <<call, faf5_arg, arg_dir, dir, dir0, dirExists, run, cleaned_df, profile_df, issues_df,
                   exported, writes, prevRun>>

SaveMerged ==
    /\ pc = "save_merged"
    /\ WriteFile(FAF5_MERGED, ToCsv(merged_df))
    /\ pc' = "clean"
    /\ UNCHANGED <<call, faf5_arg, arg_dir, dir0, dirExists, run, merged_df, cleaned_df, profile_df,
                   issues_df, exported, error, prevRun>>

Clean ==
    /\ pc = "clean"
    /\ cleaned_df' = clean_dataframe(merged_df)
    /\ pc' = "save_cleaned"
    /\ UNCHANGED <<call, faf5_arg, arg_dir, dir, dir0, dirExists, run, merged_df, profile_df, issues_df,
                   exported, writes, error, prevRun>>

SaveCleaned ==
    /\ pc = "save_cleaned"
    /\ WriteFile(FAF5_MERGED_CLEANED, ToCsv(cleaned_df))
    /\ pc' = "validate"
    /\ UNCHANGED <<call, faf5_arg, arg_dir, dir0, dirExists, run, merged_df, cleaned_df, profile_df,
                   issues_df, exported, error, prevRun>>

\* profile_columns and gather_validation_issues, inside the try block and
\* again after it.
Validate(at, next) ==
    /\ pc = at
    /\ profile_df' = profile_columns(cleaned_df)
    /\ issues_df' = gather_validation_issues(cleaned_df, dirExists, dir)
    /\ pc' = next
    /\ UNCHANGED <<call, faf5_arg, arg_dir, dir, dir0, dirExists, run, merged_df, cleaned_df, exported,
                   writes, error, prevRun>>

SaveProfile(at, next) ==
    /\ pc = at
    /\ WriteFile(FAF5_VALIDATION_COLUMNS, RowsCsv(profile_df))
    /\ pc' = next
    /\ UNCHANGED <<call, faf5_arg, arg_dir, dir0, dirExists, run, merged_df, cleaned_df, profile_df,
                   issues_df, exported, error, prevRun>>

SaveIssues(at, next) ==
    /\ pc = at
    /\ WriteFile(FAF5_VALIDATION_ISSUES, RowsCsv(issues_df))
    /\ pc' = next
    /\ UNCHANGED <<call, faf5_arg, arg_dir, dir0, dirExists, run, merged_df, cleaned_df, profile_df,
                   issues_df, exported, error, prevRun>>

ValidateInTry == Validate("validate", "save_profile")
SaveProfileInTry == SaveProfile("save_profile", "save_issues")
SaveIssuesInTry == SaveIssues("save_issues", "export")

\* export_to_duckdb: skipped without duckdb, or done.
ExportReturns ==
    /\ pc = "export"
    /\ exported' = TRUE
    /\ pc' = "after_try"
    /\ UNCHANGED <<call, faf5_arg, arg_dir, dir, dir0, dirExists, run, merged_df, cleaned_df, profile_df,
                   issues_df, writes, error, prevRun>>

\* export_to_duckdb raises; main logs and re-raises.
ExportRaises ==
    /\ pc = "export"
    /\ exported' = TRUE
    /\ pc' = "raised"
    /\ error' = "ExportError"
    /\ UNCHANGED <<call, faf5_arg, arg_dir, dir, dir0, dirExists, run, merged_df, cleaned_df, profile_df,
                   issues_df, writes, prevRun>>

ValidateAfterTry == Validate("after_try", "save_profile_again")
SaveProfileAfterTry == SaveProfile("save_profile_again", "save_issues_again")
SaveIssuesAfterTry == SaveIssues("save_issues_again", "done")

\* main() is run again on the directory the previous run left.
RunAgain ==
    /\ pc \in {"done", "returned", "raised"}
    /\ run < MaxRuns
    /\ prevRun' = [pc |-> pc, merged_df |-> merged_df, cleaned_df |-> cleaned_df,
                   profile_df |-> profile_df, issues_df |-> issues_df, dir |-> dir]
    /\ run' = run + 1
    /\ pc' = "start"
    /\ merged_df' = EmptyDataFrame
    /\ cleaned_df' = EmptyDataFrame
    /\ profile_df' = <<>>
    /\ issues_df' = <<>>
    /\ exported' = FALSE
    /\ writes' = <<>>
    /\ error' = ""
    /\ UNCHANGED <<call, faf5_arg, arg_dir, dir, dir0, dirExists>>

Next ==
    \/ ReadAll
    \/ SaveMerged
    \/ Clean
    \/ SaveCleaned
    \/ ValidateInTry
    \/ SaveProfileInTry
    \/ SaveIssuesInTry
    \/ ExportReturns
    \/ ExportRaises
    \/ ValidateAfterTry
    \/ SaveProfileAfterTry
    \/ SaveIssuesAfterTry
    \/ RunAgain

Spec == Init /\ [][Next]_vars

-----------------------------------------------------------------------------
(* The CLI (orbis_pipeline/cli.py): `run`, with or without --faf5-dir.     *)

\* The directories --faf5-dir is pointed at; they differ from every
\* directory build_faf5_directory_path() names here in the content of a.csv.
Override == Csv(<<QTY_RAW>>, <<<<<<"7">>>>, <<<<"8">>>>>>)
ArgDirs ==
    {[EmptyDir EXCEPT ![A_CSV] = Override],
     [EmptyDir EXCEPT ![A_CSV] = Override, ![B_CSV] = Sparse]}

InitCli ==
    /\ FreshDirectory("cli")
    /\ faf5_arg \in {"none", "existing", "missing"}
    /\ arg_dir \in IF faf5_arg = "existing" THEN ArgDirs ELSE {EmptyDir}

\* run_pipeline(faf5_dir): a given directory is only tested for existence;
\* orbis_main() is then called without it.
run_pipeline ==
    /\ pc = "cli"
    /\ IF faf5_arg = "missing"
       THEN pc' = "raised" /\ error' = "FileNotFoundError"
       ELSE pc' = "start" /\ UNCHANGED error
    /\ UNCHANGED <<call, faf5_arg, arg_dir, dir, dir0, dirExists, run, merged_df,
                   cleaned_df, profile_df, issues_df, exported, writes, prevRun>>

NextCli ==
    \/ run_pipeline
    \/ Next

SpecCli == InitCli /\ [][NextCli]_vars

-----------------------------------------------------------------------------
(* C1: convert_mostly_numeric_columns converts a text column exactly when  *)
(* the parseable share of its non-null values is at least the threshold;   *)
(* a converted column holds the number of each parseable value and null    *)
(* for each other value, and a column that is not converted is unchanged.  *)
(* (A column with no non-null value has no such share and is unchanged.)   *)

C1_ParseableCount(cells) ==
    Cardinality({i \in 1..Len(cells) : NotNa(cells[i]) /\ NotNa(ParseNumber(cells[i].s))})
C1_NonNullCount(cells) == Cardinality({i \in 1..Len(cells) : NotNa(cells[i])})
C1_MeetsThreshold(cells, t) ==
    /\ C1_NonNullCount(cells) > 0
    /\ C1_ParseableCount(cells) * t.den >= t.num * C1_NonNullCount(cells)

C1_ConvertIffRatio ==
    call.fn = "convert_mostly_numeric_columns" =>
        LET df == call.in.df
            out == call.out
        IN  /\ out.columns = df.columns
            /\ out.index = df.index
            /\ NumRows(out) = NumRows(df)
            /\ \A j \in 1..NumCols(df) :
                  LET before == ColumnAt(df, j)
                      after == ColumnAt(out, j)
                  IN  IF C1_MeetsThreshold(before, call.in.threshold)
                      THEN /\ IsNumericDtype(out.dtypes[j])
                           /\ \A i \in 1..Len(before) :
                                 after[i] = IF IsNa(before[i]) THEN Null
                                            ELSE ParseNumber(before[i].s)
                      ELSE /\ out.dtypes[j] = df.dtypes[j]
                           /\ after = before

\* The column ["1", "-2", "x", null] has been converted at threshold 0.5.
C1_Witness ==
    /\ call.fn = "convert_mostly_numeric_columns"
    /\ call.in.threshold = [num |-> 5, den |-> 10]
    /\ ColumnAt(call.in.df, 1) = <<Str(<<"1">>), Str(<<"-", "2">>), Str(<<"x">>), Null>>
    /\ ColumnAt(call.out, 1) = <<Num(1), Num(0 - 2), Null, Null>>
    /\ call.out.dtypes[1] = "float64"
    /\ call.out.dtypes[2] = "object"

-----------------------------------------------------------------------------
(* C2: remove_duplicate_rows returns no two equal rows; its rows are the   *)
(* rows of the input at the positions of their first occurrence, in input  *)
(* order; and applying it again changes nothing.                           *)

C2_FirstOccurrences(df) ==
    {i \in 1..NumRows(df) : \A j \in 1..(i - 1) : df.rows[j] # df.rows[i]}

C2_DedupFirstOccurrence ==
    call.fn = "remove_duplicate_rows" =>
        LET df == call.in
            out == call.out
        IN  /\ \A i, j \in 1..NumRows(out) : i # j => out.rows[i] # out.rows[j]
            /\ NumRows(out) = Cardinality(C2_FirstOccurrences(df))
            /\ \A k \in 1..NumRows(out) :
                  /\ out.index[k] + 1 \in C2_FirstOccurrences(df)
                  /\ out.rows[k] = df.rows[out.index[k] + 1]
                  /\ k > 1 => out.index[k - 1] < out.index[k]
            /\ out.columns = df.columns
            /\ out.dtypes = df.dtypes
            /\ remove_duplicate_rows(out) = out

\* A table whose second and fourth rows repeat earlier rows has been reduced
\* to its first and third rows.
C2_Witness ==
    /\ call.fn = "remove_duplicate_rows"
    /\ NumRows(call.in) = 4
    /\ call.in.rows[2] = call.in.rows[1]
    /\ call.in.rows[4] = call.in.rows[3]
    /\ call.out.index = <<0, 2>>

-----------------------------------------------------------------------------
(* C3: in normalize_column_names the first column, in column order, that   *)
(* normalizes to a name n is named n and the k-th such column (k >= 2) is  *)
(* named n_k; a column whose normalized name collides with no other keeps  *)
(* it; column order and column count are unchanged.                        *)

C3_Rank(names, j) ==
    Cardinality({i \in 1..j : normalize_column_name(names[i]) = normalize_column_name(names[j])})

C3_CollisionSuffixes ==
    call.fn = "normalize_column_names" =>
        LET df == call.in
            out == call.out
        IN  /\ NumCols(out) = NumCols(df)
            /\ out.rows = df.rows
            /\ out.dtypes = df.dtypes
            /\ \A j \in 1..NumCols(df) :
                  LET n == normalize_column_name(df.columns[j])
                      k == C3_Rank(df.columns, j)
                  IN  out.columns[j] =
                          IF k = 1 THEN n ELSE n \o <<"_">> \o IntToStr(k)

\* Three columns that all normalize to "a" have been renamed a, a_2, a_3.
C3_Witness ==
    /\ call.fn = "normalize_column_names"
    /\ call.in.columns = <<<<"a", " ">>, <<"A">>, <<"a">>>>
    /\ call.out.columns = <<<<"a">>, <<"a", "_", "2">>, <<"a", "_", "3">>>>

-----------------------------------------------------------------------------
(* C4: normalize_column_name is idempotent, and its result is never empty, *)
(* holds only lowercase alphanumerics and single underscores, neither      *)
(* starts nor ends with an underscore, and is the literal "column" when    *)
(* the input has no alphanumeric character.                                *)

C4_IsNormalizedName(s) ==
    /\ s # <<>>
    /\ \A i \in 1..Len(s) : s[i] = "_" \/ IsDigit(s[i]) \/ IsLowerLetter(s[i])
    /\ ~HasDoubleUnderscore(s)
    /\ s[1] # "_"
    /\ s[Len(s)] # "_"

C4_NormalizeIdempotent ==
    call.fn = "normalize_column_name" =>
        /\ normalize_column_name(call.out) = call.out
        /\ C4_IsNormalizedName(call.out)
        /\ (\A i \in 1..Len(call.in) : ~IsAlnum(call.in[i])) => call.out = COLUMN

\* An input with a capital, leading whitespace, and a run of symbols at its
\* end has been normalized.
C4_Witness ==
    /\ call.fn = "normalize_column_name"
    /\ call.in = <<" ", "A", "-", "_">>
    /\ call.out = <<"a">>

-----------------------------------------------------------------------------
(* C5: read_all_faf5_csvs on an existing directory whose eligible files    *)
(* (.csv in any case, none of the four output names) all parse returns     *)
(* their rows, files in lexicographic name order and rows in file order,   *)
(* each row's source_file its file's name and a column absent from a file  *)
(* null in that file's rows; with no eligible file it returns the table    *)
(* with no rows and no columns; it raises when an eligible file does not   *)
(* parse, and when the directory does not exist.                           *)

C5_Reserved ==
    {FAF5_MERGED, FAF5_MERGED_CLEANED, FAF5_VALIDATION_COLUMNS, FAF5_VALIDATION_ISSUES}
C5_Eligible(d) ==
    {name \in DOMAIN d :
        /\ d[name].kind # "absent"
        /\ Len(name) >= 4
        /\ LowerChar(name[Len(name) - 3]) = "."
        /\ LowerChar(name[Len(name) - 2]) = "c"
        /\ LowerChar(name[Len(name) - 1]) = "s"
        /\ LowerChar(name[Len(name)]) = "v"
        /\ name \notin C5_Reserved}

\* main() has just called read_all_faf5_csvs on dir.
C5_JustRead ==
    \/ pc \in {"save_merged", "returned"}
    \/ pc = "raised" /\ error # "ExportError"

C5_IsMergeOf(df, d) ==
    LET sf == ColumnIndex(df.columns, SOURCE_FILE)
        file(p) == df.rows[p][sf].s
    IN  /\ sf > 0
        /\ \A i, j \in 1..NumCols(df) : i # j => df.columns[i] # df.columns[j]
        /\ \A p \in 1..NumRows(df) : df.rows[p][sf].t = "str" /\ file(p) \in C5_Eligible(d)
        /\ \A p, q \in 1..NumRows(df) :
              p < q => file(p) = file(q) \/ LexLess(file(p), file(q))
        /\ \A f \in C5_Eligible(d) :
              LET t == ReadCsv(d[f])
                  at == Ascending({p \in 1..NumRows(df) : file(p) = f})
              IN  /\ Len(at) = NumRows(t)
                  /\ \A j \in 1..NumCols(t) : ColumnIndex(df.columns, t.columns[j]) > 0
                  /\ \A k \in 1..Len(at), c \in 1..NumCols(df) :
                        df.rows[at[k]][c] =
                            IF c = sf THEN Str(f)
                            ELSE IF ColumnIndex(t.columns, df.columns[c]) > 0
                                 THEN t.rows[k][ColumnIndex(t.columns, df.columns[c])]
                                 ELSE Null

C5_Returns ==
    /\ pc # "raised"
    /\ IF C5_Eligible(dir) = {} THEN merged_df = EmptyDataFrame
       ELSE C5_IsMergeOf(merged_df, dir)

C5_MergeOfParseableFiles ==
    C5_JustRead =>
        IF ~dirExists THEN pc = "raised" /\ error = "FileNotFoundError"
        ELSE IF \E f \in C5_Eligible(dir) : dir[f].kind = "bad"
             THEN pc = "raised" /\ error = "RuntimeError"
             ELSE C5_Returns

\* The claim as stated: on every existing directory the merge is returned.
C5_MergeOfEveryDirectory ==
    C5_JustRead =>
        IF ~dirExists THEN pc = "raised" /\ error = "FileNotFoundError"
        ELSE C5_Returns

\* Two source files with different columns have been merged on a second run,
\* beside the output files of the first run and a file that is no CSV.
C5_Witness ==
    /\ pc = "save_merged"
    /\ run = 2
    /\ dir[A_CSV] = DupThenNegative
    /\ dir[B_CSV] = Sparse
    /\ dir[N_TXT] # Absent
    /\ dir[FAF5_MERGED_CLEANED] # Absent
    /\ NumRows(merged_df) = 4
    /\ merged_df.rows[1][ColumnIndex(merged_df.columns, SOURCE_FILE)] = Str(B_CSV)
    /\ merged_df.rows[1][ColumnIndex(merged_df.columns, NOTE_RAW)] = Null

-----------------------------------------------------------------------------
(* C6: the issues of gather_validation_issues come in four groups, in this *)
(* order: one missing_values issue per column with a null, in column order *)
(* and counting its nulls; one negative_values issue per numeric column    *)
(* with a negative value, in column order; the source_file issues (the     *)
(* single source_file_missing, or up to three others); at most one         *)
(* duplicate_rows issue.                                                   *)

C6_Group(issue) ==
    CASE issue.issue_type = "missing_values" -> 1
      [] issue.issue_type = "negative_values" -> 2
      [] issue.issue_type = "duplicate_rows" -> 4
      [] OTHER -> 3

C6_NullCount(df, j) == Cardinality({i \in 1..NumRows(df) : IsNa(df.rows[i][j])})
C6_HasNegative(df, j) ==
    /\ IsNumericDtype(df.dtypes[j])
    /\ \E i \in 1..NumRows(df) : df.rows[i][j].t = "num" /\ df.rows[i][j].n < 0

\* The issues of one type name exactly the columns of S, once each, in
\* column order.
C6_OnePerColumn(df, issues, type, S) ==
    LET at == {k \in 1..Len(issues) : issues[k].issue_type = type}
    IN  /\ Cardinality(at) = Cardinality(S)
        /\ \A j \in S : \E k \in at : issues[k].column = df.columns[j]
        /\ \A k, l \in at :
              k < l => ColumnIndex(df.columns, issues[k].column)
                          < ColumnIndex(df.columns, issues[l].column)

C6_IssueOrder ==
    call.fn = "gather_validation_issues" =>
        LET df == call.in.df
            issues == call.out
            third == {k \in 1..Len(issues) : C6_Group(issues[k]) = 3}
        IN  /\ \A k \in 1..(Len(issues) - 1) :
                  C6_Group(issues[k]) <= C6_Group(issues[k + 1])
            /\ C6_OnePerColumn(df, issues, "missing_values",
                               {j \in 1..NumCols(df) : C6_NullCount(df, j) > 0})
            /\ \A k \in 1..Len(issues) :
                  issues[k].issue_type = "missing_values" =>
                      issues[k].count
                          = C6_NullCount(df, ColumnIndex(df.columns, issues[k].column))
            /\ C6_OnePerColumn(df, issues, "negative_values",
                               {j \in 1..NumCols(df) : C6_HasNegative(df, j)})
            /\ \A k \in third :
                  issues[k].issue_type \in
                      {"source_file_missing", "source_file_null",
                       "source_file_empty", "source_file_invalid"}
            /\ \A k, l \in third :
                  k # l => issues[k].issue_type # issues[l].issue_type
            /\ \A k \in third :
                  issues[k].issue_type = "source_file_missing" => third = {k}
            /\ Cardinality(third) <= 3
            /\ Cardinality({k \in 1..Len(issues) : C6_Group(issues[k]) = 4}) <= 1

\* Two missing_values issues, two negative_values issues, three source_file
\* issues and a duplicate_rows issue have been returned together.
C6_Witness ==
    /\ call.fn = "gather_validation_issues"
    /\ [k \in 1..Len(call.out) |-> call.out[k].issue_type]
          = <<"missing_values", "missing_values", "negative_values", "negative_values",
              "source_file_null", "source_file_empty", "source_file_invalid",
              "duplicate_rows">>

-----------------------------------------------------------------------------
(* C7: with a source_file column and a readable directory, whatever the    *)
(* directory's set of eligible file names, a source_file_invalid issue is  *)
(* emitted exactly when some non-null source_file value is not in that     *)
(* set, and it counts those rows; when the directory cannot be read, the   *)
(* check is skipped.                                                       *)

C7_Eligible(d) ==
    {name \in ListDir(d) : EndsWithCsv(name) /\ name \notin excluded_filenames}

C7_InvalidRows(df, d) ==
    {i \in 1..NumRows(df) :
        LET v == df.rows[i][ColumnIndex(df.columns, SOURCE_FILE)]
        IN  NotNa(v) /\ v.s \notin C7_Eligible(d)}

C7_InvalidExactlyWhenNotEligible ==
    (/\ call.fn = "gather_validation_issues"
     /\ ColumnIndex(call.in.df.columns, SOURCE_FILE) > 0) =>
        LET invalid == C7_InvalidRows(call.in.df, call.in.d)
            emitted == {k \in 1..Len(call.out) :
                           call.out[k].issue_type = "source_file_invalid"}
        IN  IF call.in.readable
            THEN /\ (emitted # {}) <=> (invalid # {})
                 /\ \A k \in emitted : call.out[k].count = Cardinality(invalid)
            ELSE emitted = {}

-----------------------------------------------------------------------------
(* C8: the details of each negative_values issue list the zero-based row   *)
(* positions, within the validated table, of the first up to 10 rows whose *)
(* value in that column is negative; in particular for the cleaned table   *)
(* the pipeline validates.                                                 *)

C8_NegativePositions(df, j) ==
    LET at == Ascending({i \in 1..NumRows(df) :
                            df.rows[i][j].t = "num" /\ df.rows[i][j].n < 0})
        first == SubSeq(at, 1, IF Len(at) < 10 THEN Len(at) ELSE 10)
    IN  [k \in 1..Len(first) |-> Num(first[k] - 1)]

C8_SamplesArePositions ==
    pc \in {"save_profile", "save_profile_again"} =>
        \A k \in 1..Len(issues_df) :
            issues_df[k].issue_type = "negative_values" =>
                issues_df[k].details.values
                    = C8_NegativePositions(
                          cleaned_df, ColumnIndex(cleaned_df.columns, issues_df[k].column))

-----------------------------------------------------------------------------
(* C9: a run of main() whose merged table is empty ends there without an   *)
(* error: it writes no output file, inside the try block or after it, and  *)
(* does not attempt the store export.                                      *)

C9_EmptyMergeEndsRun ==
    (pc \notin {"start", "raised"} /\ IsEmpty(merged_df)) =>
        /\ pc = "returned"
        /\ error = ""
        /\ writes = <<>>
        /\ ~exported
        /\ cleaned_df = EmptyDataFrame
        /\ profile_df = <<>>
        /\ issues_df = <<>>
        /\ dir = IF run = 1 THEN dir0 ELSE prevRun.dir

\* A run has ended on a merged table with columns and no rows (the eligible
\* files have headers only).
C9_Witness ==
    /\ pc = "returned"
    /\ NumCols(merged_df) > 0
    /\ NumRows(merged_df) = 0

-----------------------------------------------------------------------------
(* C10: a run only creates or overwrites the four output files, so the     *)
(* eligible input files and their contents stay as they were; and a        *)
(* completed run that follows a completed run computes the same merged,    *)
(* cleaned, profile and issues tables and leaves the same files.           *)

C10_Outputs ==
    {FAF5_MERGED, FAF5_MERGED_CLEANED, FAF5_VALIDATION_COLUMNS, FAF5_VALIDATION_ISSUES}

C10_RerunIsIdentical ==
    /\ \A name \in DOMAIN dir : name \notin C10_Outputs => dir[name] = dir0[name]
    /\ \A k \in 1..Len(writes) : writes[k] \in C10_Outputs
    /\ (run > 1 /\ pc \in {"done", "returned"} /\ prevRun.pc \in {"done", "returned"}) =>
          /\ pc = prevRun.pc
          /\ merged_df = prevRun.merged_df
          /\ cleaned_df = prevRun.cleaned_df
          /\ profile_df = prevRun.profile_df
          /\ issues_df = prevRun.issues_df
          /\ dir = prevRun.dir

\* A second run has completed on a directory that held a stale merged file
\* before the first run, and has rewritten all four output files.
C10_Witness ==
    /\ run = 2
    /\ pc = "done"
    /\ prevRun.pc = "done"
    /\ dir0[FAF5_MERGED] = Sparse
    /\ dir[FAF5_MERGED] # Sparse
    /\ Len(writes) = 6
    /\ NumRows(cleaned_df) < NumRows(merged_df)

-----------------------------------------------------------------------------
(* C11: when `run` is given --faf5-dir naming an existing directory D, the *)
(* run ingests the CSV files of D and writes its outputs into D, not into  *)
(* the FAF5 directory next to orbis.py; without --faf5-dir the default     *)
(* directory is used.                                                      *)

C11_Outputs ==
    {FAF5_MERGED, FAF5_MERGED_CLEANED, FAF5_VALIDATION_COLUMNS, FAF5_VALIDATION_ISSUES}

C11_OverrideIsUsed ==
    /\ (faf5_arg = "existing" /\ run = 1) =>
          /\ ~(pc = "raised" /\ error = "FileNotFoundError")
          /\ pc \in {"save_merged", "returned"} =>
                merged_df = read_all_faf5_csvs(TRUE, arg_dir).value
          /\ dir = dir0
          /\ pc = "done" => \A name \in C11_Outputs : arg_dir[name] # Absent
    /\ (faf5_arg = "none" /\ run = 1 /\ pc \in {"save_merged", "returned"}) =>
          merged_df = read_all_faf5_csvs(dirExists, dir).value

-----------------------------------------------------------------------------
(* C12: for a table whose original column names are pairwise distinct, the *)
(* column names normalize_column_names produces are pairwise distinct: a   *)
(* suffixed name n_k never equals the name given to another column, not    *)
(* even a column whose own normalized name is already n_k.                 *)

C12_PairwiseDistinct(names) ==
    \A i, j \in 1..Len(names) : i # j => names[i] # names[j]

C12_RenamedNamesAreDistinct ==
    (call.fn = "normalize_column_names" /\ C12_PairwiseDistinct(call.in.columns)) =>
        C12_PairwiseDistinct(call.out.columns)

=============================================================================
